---- MODULE Spec2Model ----
(***************************************************************************)
(* A model of ldrshrink (src/ldrshrink.c): the loader-stream simplifier    *)
(* for ADSP-SC58x/BF70x boot streams.  The input file is a byte sequence;  *)
(* main() reads it header by header, merges contiguous blocks into chunks  *)
(* and writes simplified images.                                           *)
(*                                                                         *)
(* 32-bit unsigned values (addresses, byte counts, arguments, lengths) are *)
(* kept as records [hi, lo] of two 16-bit halves, so that arithmetic is    *)
(* modulo 2^32 exactly as in the C code.                                   *)
(***************************************************************************)
EXTENDS Integers, Sequences, FiniteSets, TLC

(* ------------------------------------------------------------------ *)
(* Program constants                                                  *)
(* ------------------------------------------------------------------ *)
BFLAG_FILL == 16
BFLAG_INIT == 128
BFLAG_IGNORE == 256
BFLAG_FIRST == 1024
BFLAG_FINAL == 2048
CUSTOMIZE_SMALLEST_FILL_BLOCK == 256
\* sizeof(struct block_header_type)
HeaderSize == 16
\* sizeof(hdr.argument)
ArgSize == 4

(* ------------------------------------------------------------------ *)
(* Bit operations and 32-bit unsigned arithmetic                      *)
(* ------------------------------------------------------------------ *)
RECURSIVE AndBits(_, _)
AndBits(a, b) ==
  IF a = 0 \/ b = 0 THEN 0
  ELSE (a % 2) * (b % 2) + 2 * AndBits(a \div 2, b \div 2)

\* a & b on 16-bit values, through a table of the byte cases
AndTable == [a \in 0..255 |-> [b \in 0..255 |-> AndBits(a, b)]]
BitAnd(a, b) ==
  AndTable[a % 256][b % 256] + 256 * AndTable[a \div 256][b \div 256]

RECURSIVE XorBits(_, _)
XorBits(a, b) ==
  IF a = 0 THEN b
  ELSE IF b = 0 THEN a
  ELSE ((a + b) % 2) + 2 * XorBits(a \div 2, b \div 2)

\* a ^ b on bytes, through a table
XorTable == [a \in 0..255 |-> [b \in 0..255 |-> XorBits(a, b)]]
BitXor(a, b) == XorTable[a][b]

\* a & ~b, for 12-bit flag fields
BitClear(a, b) == a - BitAnd(a, b)

W32(h, l) == [hi |-> h, lo |-> l]
Zero32 == W32(0, 0)
\* a small natural as an unsigned 32-bit value
U32(n) == W32((n \div 65536) % 65536, n % 65536)
\* the natural number of a 32-bit value (used for buffer sizes and offsets)
Val(w) == w.hi * 65536 + w.lo

Add32(a, b) ==
  LET l == a.lo + b.lo
      h == a.hi + b.hi + (l \div 65536)
  IN W32(h % 65536, l % 65536)

Sub32(a, b) ==
  LET l == a.lo - b.lo
      br == IF l < 0 THEN 1 ELSE 0
      h == a.hi - b.hi - br
  IN W32((h + 65536) % 65536, (l + 65536) % 65536)

Lt32(a, b) == a.hi < b.hi \/ (a.hi = b.hi /\ a.lo < b.lo)
Le32(a, b) == a = b \/ Lt32(a, b)
Gt32(a, b) == Lt32(b, a)
Ge32(a, b) == Le32(b, a)

(* ------------------------------------------------------------------ *)
(* The 16-byte block header: struct block_header_type                 *)
(* ------------------------------------------------------------------ *)
\* little-endian bytes of an unsigned 32-bit field
LE32(w) == << w.lo % 256, w.lo \div 256, w.hi % 256, w.hi \div 256 >>

\* the raw bytes of a header: bcode:4, flags:12, hdrchk:8, hdrsign:8 packed
\* into the first 32-bit word, then target_address, byte_count, argument
HeaderBytes(h) ==
  << h.bcode + 16 * (h.flags % 16), h.flags \div 16, h.hdrchk, h.hdrsign >>
    \o LE32(h.target_address) \o LE32(h.byte_count) \o LE32(h.argument)

\* the header held in 16 raw bytes (what fread(&hdr, 16, 1, input) stores)
block_header_type(b) ==
  [ bcode          |-> b[1] % 16,
    flags          |-> (b[1] \div 16) + 16 * b[2],
    hdrchk         |-> b[3],
    hdrsign        |-> b[4],
    target_address |-> W32(b[8] * 256 + b[7], b[6] * 256 + b[5]),
    byte_count     |-> W32(b[12] * 256 + b[11], b[10] * 256 + b[9]),
    argument       |-> W32(b[16] * 256 + b[15], b[14] * 256 + b[13]) ]

\* the XOR of the sixteen bytes of a header
XorBytes(b) ==
  LET x1 == XorTable[b[1]][b[2]]
      x2 == XorTable[b[3]][b[4]]
      x3 == XorTable[b[5]][b[6]]
      x4 == XorTable[b[7]][b[8]]
      x5 == XorTable[b[9]][b[10]]
      x6 == XorTable[b[11]][b[12]]
      x7 == XorTable[b[13]][b[14]]
      x8 == XorTable[b[15]][b[16]]
  IN XorTable[XorTable[XorTable[x1][x2]][XorTable[x3][x4]]]
             [XorTable[XorTable[x5][x6]][XorTable[x7][x8]]]

\* a checksum loop that stops one byte early
calc_header_checksum_short(hdr) ==
  XorBytes([HeaderBytes(hdr) EXCEPT ![HeaderSize] = 0])

\* checksum is an XOR of all bytes in the header
calc_header_checksum(hdr) == XorBytes(HeaderBytes(hdr))

\* a write_header that does not clear the checksum byte first
write_header_uncleared(hdr) ==
  HeaderBytes([hdr EXCEPT !.hdrchk = calc_header_checksum(hdr)])

\* the 16 bytes write_header() puts on the output
write_header(hdr) ==
  LET h0 == [hdr EXCEPT !.hdrchk = 0]
      h1 == [h0 EXCEPT !.hdrchk = calc_header_checksum(h0)]
  IN HeaderBytes(h1)

(* ------------------------------------------------------------------ *)
(* Bounds of the model                                                *)
(* ------------------------------------------------------------------ *)
\* number of blocks between the leading First block and the end of the input
MaxBody == 3
\* values an uninitialised byte (stack or fresh heap) may hold
Garbage == {0, 165}

NULL == << >>

(* ------------------------------------------------------------------ *)
(* Input files: a leading First block, a body, an optional Final block *)
(* ------------------------------------------------------------------ *)
\* a header record whose checksum byte makes the XOR of its 16 bytes zero
Hdr(bc, fl, sg, ta, n, arg) ==
  LET h0 == [ bcode |-> bc, flags |-> fl, hdrchk |-> 0, hdrsign |-> sg,
              target_address |-> ta, byte_count |-> n, argument |-> arg ]
  IN [h0 EXCEPT !.hdrchk = XorBytes(HeaderBytes(h0))]

Blk(h, p) == [hdr |-> h, payload |-> p]
Bytes(first, n) == [i \in 1..n |-> first + i - 1]

LeadFirst == Blk(Hdr(10, BFLAG_IGNORE + BFLAG_FIRST, 173, W32(8, 0), Zero32, U32(100)), << >>)
TailFinal == Blk(Hdr(10, BFLAG_FINAL, 173, W32(8, 0), Zero32, Zero32), << >>)

\* Normal blocks: 0x1000+0x10, 0x1010+0x10 (contiguous), 0x100E+4 (overlaps
\* both), an Init block at 0x1020, and one that ends at the top of the
\* address space
N1 == Blk(Hdr(10, 0, 173, U32(4096), U32(16), Zero32), Bytes(17, 16))
N2 == Blk(Hdr(10, 0, 173, U32(4112), U32(16), Zero32), Bytes(49, 16))
NP == Blk(Hdr(10, 0, 173, U32(4110), U32(4), Zero32), Bytes(97, 4))
NI == Blk(Hdr(10, BFLAG_INIT, 173, U32(4128), U32(2), Zero32), Bytes(112, 2))
NW == Blk(Hdr(10, 0, 173, W32(65535, 65520), U32(16), Zero32), Bytes(129, 16))
\* Fill blocks: 0x2000+64 of 0xFFFFFFFF, 0x1010+8, 0x1020+6 (not a multiple
\* of 4), 0x1020+1024 (above the threshold), 0xFFFFFC00+1024 (to the top)
FS == Blk(Hdr(10, BFLAG_FILL, 173, U32(8192), U32(64), W32(65535, 65535)), << >>)
FC == Blk(Hdr(10, BFLAG_FILL, 173, U32(4112), U32(8), W32(52719, 43981)), << >>)
FR == Blk(Hdr(10, BFLAG_FILL, 173, U32(4128), U32(6), W32(4660, 22136)), << >>)
FL == Blk(Hdr(10, BFLAG_FILL, 173, U32(4128), U32(1024), W32(0, 90)), << >>)
FLW == Blk(Hdr(10, BFLAG_FILL, 173, W32(65535, 64512), U32(1024), W32(0, 91)), << >>)
\* Ignore blocks: one with two payload bytes, one that also carries FILL and
\* INIT, with three
IG == Blk(Hdr(10, BFLAG_IGNORE, 173, Zero32, U32(2), Zero32), Bytes(200, 2))
IGX == Blk(Hdr(10, BFLAG_IGNORE + BFLAG_FILL + BFLAG_INIT, 173, U32(4096), U32(3), U32(5)),
          Bytes(210, 3))
\* further First blocks: with Fill and Init set, and with Final set
F2 == Blk(Hdr(11, BFLAG_FIRST + BFLAG_FILL + BFLAG_INIT, 174, W32(9, 0), U32(8), U32(7)), << >>)
FF == Blk(Hdr(12, BFLAG_FIRST + BFLAG_FINAL, 175, W32(10, 0), Zero32, Zero32), << >>)

Catalogue == {N1, N2, NP, NI, NW, FS, FC, FR, FL, FLW, IG, IGX, F2, FF}

Bodies == UNION {[1..n -> Catalogue] : n \in 0..MaxBody}
Streams == {<<LeadFirst>> \o b \o t : b \in Bodies, t \in {<< >>, <<TailFinal>>}}

RECURSIVE StreamBytes(_)
StreamBytes(s) ==
  IF s = << >> THEN << >>
  ELSE HeaderBytes(s[1].hdr) \o s[1].payload \o StreamBytes(Tail(s))

\* the offsets at which the headers of a stream start
RECURSIVE HeaderOffsets(_, _)
HeaderOffsets(s, at) ==
  IF s = << >> THEN {}
  ELSE {at} \cup HeaderOffsets(Tail(s), at + HeaderSize + Len(s[1].payload))

(* ------------------------------------------------------------------ *)
(* Program state                                                      *)
(* ------------------------------------------------------------------ *)
VARIABLES
  input,     \* the bytes of the input file
  inpos,     \* file position of the input
  hdr,       \* main's struct block_header_type hdr
  list,      \* the linked list of chunks, head first
  settings,  \* main's struct image_settings_type settings
  output,    \* the bytes written to the output file
  pc,        \* "read": in the while loop, "finish": after it,
             \* "done": returned 0, "aborted": returned -1
  images,    \* history: one record per write_image() call of this run
  writes,    \* history: the blocks merged since the last write_image(): the
             \* header, its offset in the input, the index of its chunk
  hdrAt,     \* the offsets at which the input's headers start
  outHdrAt,  \* the offsets at which headers were written to the output
  last,      \* history: what the last step did
  pass,      \* 1: the run on the input file, 2: the run on its output
  images1,   \* the images of the first run, kept for the second
  flipAt     \* offset of the input header that had one bit flipped, or -1

vars == << input, inpos, hdr, list, settings, output, pc, images, writes,
           hdrAt, outHdrAt, last, pass, images1, flipAt >>

Has(flags, bit) == BitAnd(flags, bit) # 0

\* uninitialised stack contents of main
UninitHdr(g) == block_header_type([i \in 1..HeaderSize |-> g])
UninitSettings(g) == [hdrsign |-> g, bcode |-> g, entry_point |-> W32(g * 257, g * 257)]

Step(o, a, h, i, n, gr, f) ==
  [op |-> o, at |-> a, hdr |-> h, idx |-> i, isnew |-> n, grew |-> gr,
   flushed |-> f]
NoStep == Step("none", 0, UninitHdr(0), 0, FALSE, FALSE, FALSE)

Start(bytes, offsets, flip, g) ==
  /\ input = bytes
  /\ inpos = 0
  /\ hdr = UninitHdr(g)
  /\ list = << >>
  /\ settings = UninitSettings(g)
  /\ output = << >>
  /\ pc = "read"
  /\ images = << >>
  /\ writes = << >>
  /\ hdrAt = offsets
  /\ outHdrAt = {}
  /\ last = NoStep
  /\ pass = 1
  /\ images1 = << >>
  /\ flipAt = flip

Init ==
  \E s \in Streams, g \in Garbage :
    Start(StreamBytes(s), HeaderOffsets(s, 0), -1, g)

\* bit number bit (0..127) of the header at offset at is inverted
FlipBit(bytes, at, bit) ==
  LET i == at + (bit \div 8) + 1
  IN [bytes EXCEPT ![i] = BitXor(bytes[i], 2 ^ (bit % 8))]

\* the offset of the k-th header of a stream
RECURSIVE HeaderOffset(_, _)
HeaderOffset(s, k) ==
  IF k = 1 THEN 0
  ELSE HeaderSize + Len(s[1].payload) + HeaderOffset(Tail(s), k - 1)

\* blocks at the edges of the merge rule: a Normal block at 0xFFFFFFE0 and a
\* Fill block at 0xFFFFFFF0, 16 bytes each, the second ending at 2^32; and a
\* block at 0x0FF0, 16 bytes, with a flag bit the program does not name
\* (0x040), which N1 follows without gap
NT == Blk(Hdr(10, 0, 173, W32(65535, 65504), U32(16), Zero32), Bytes(161, 16))
FT == Blk(Hdr(10, BFLAG_FILL, 173, W32(65535, 65520), U32(16), W32(4386, 13124)), << >>)
NQ == Blk(Hdr(10, 64, 173, U32(4080), U32(16), Zero32), Bytes(177, 16))

EdgeCatalogue == {NT, FT, NQ, N1, IG}
EdgeBodies == UNION {[1..n -> EdgeCatalogue] : n \in 0..MaxBody}
EdgeStreams ==
  {<<LeadFirst>> \o b \o t : b \in EdgeBodies, t \in {<< >>, <<TailFinal>>}}

\* an input file of blocks at the edges of the merge rule
InitEdge ==
  \E s \in EdgeStreams, g \in Garbage :
    Start(StreamBytes(s), HeaderOffsets(s, 0), -1, g)

\* the input files with at most one block between First and Final
ShortStreams == {s \in Streams : Len(s) <= 3}

\* a short input file, whole or with one bit of one header inverted
InitFlip ==
  \E s \in ShortStreams, g \in Garbage :
    \/ Start(StreamBytes(s), HeaderOffsets(s, 0), -1, g)
    \/ \E k \in 1..Len(s), bit \in 0..(8 * HeaderSize - 1) :
         Start(FlipBit(StreamBytes(s), HeaderOffset(s, k), bit),
               HeaderOffsets(s, 0), HeaderOffset(s, k), g)

(* ------------------------------------------------------------------ *)
(* write_image                                                        *)
(* ------------------------------------------------------------------ *)
\* a position that counts the length of every chunk, buffer or not
RECURSIVE ImagePositionAnyLength(_, _)
ImagePositionAnyLength(l, position) ==
  IF l = << >> THEN position
  ELSE ImagePositionAnyLength(Tail(l),
         Add32(Add32(position, U32(HeaderSize)), l[1].length))

\* the first loop of write_image: position after the chunks of l
RECURSIVE ImagePosition(_, _)
ImagePosition(l, position) ==
  IF l = << >> THEN position
  ELSE ImagePosition(Tail(l),
         LET p1 == Add32(position, U32(HeaderSize))
         IN IF l[1].data # NULL THEN Add32(p1, l[1].length) ELSE p1)

\* the first Val(n) bytes of a buffer (fwrite(current->data, 1, length))
BufferBytes(data, n) == SubSeq(data, 1, n)

\* the second loop of write_image: header and data of every chunk; h is the
\* local hdr, which keeps bcode and hdrsign of the leading header
RECURSIVE ChunkBytes(_, _)
ChunkBytes(l, h) ==
  IF l = << >> THEN << >>
  ELSE LET c == l[1]
           hc == [h EXCEPT !.flags = c.flags, !.argument = c.argument,
                           !.byte_count = c.length, !.target_address = c.address]
       IN write_header(hc)
            \o (IF c.data # NULL THEN BufferBytes(c.data, Val(c.length)) ELSE << >>)
            \o ChunkBytes(Tail(l), hc)

\* a leading header that lacks the FIRST flag
LeadingHeaderIgnoreOnly(l, st) ==
  [ bcode |-> st.bcode % 16, flags |-> BFLAG_IGNORE, hdrchk |-> 0,
    hdrsign |-> st.hdrsign, target_address |-> st.entry_point,
    byte_count |-> Zero32, argument |-> ImagePosition(l, U32(HeaderSize)) ]

\* lines 361-367: the synthetic header write_image starts with
LeadingHeader(l, st) ==
  [ bcode |-> st.bcode % 16, flags |-> BFLAG_IGNORE + BFLAG_FIRST, hdrchk |-> 0,
    hdrsign |-> st.hdrsign, target_address |-> st.entry_point,
    byte_count |-> Zero32, argument |-> ImagePosition(l, U32(HeaderSize)) ]

\* all bytes write_image(output, l, st) writes
write_image(l, st) ==
  LET h == LeadingHeader(l, st)
  IN write_header(h) \o ChunkBytes(l, h)

\* offsets (relative to the start of the image) of the chunk headers
RECURSIVE ChunkHeaderOffsets(_, _)
ChunkHeaderOffsets(l, at) ==
  IF l = << >> THEN {}
  ELSE {at} \cup ChunkHeaderOffsets(Tail(l),
         at + HeaderSize + (IF l[1].data # NULL THEN Val(l[1].length) ELSE 0))

ImageHeaderOffsets(l, at) == {at} \cup ChunkHeaderOffsets(l, at + HeaderSize)

ImageRecord(l, st, w) == [settings |-> st, chunks |-> l, writes |-> w]

(* ------------------------------------------------------------------ *)
(* The merge rule of main's while loop                                *)
(* ------------------------------------------------------------------ *)
\* a match test that lets a block with any flags join a chunk
IsMatchAnyFlags(h, c) ==
  /\ ~(Has(h.flags, BFLAG_FILL)
        /\ Gt32(h.byte_count, U32(CUSTOMIZE_SMALLEST_FILL_BLOCK)))
  /\ ~Has(c.flags, BFLAG_FILL)
  /\ Ge32(h.target_address, c.address)
  /\ Le32(h.target_address, Add32(c.address, c.length))

\* lines 199-213: does block h go into chunk c?
IsMatch(h, c) ==
  /\ BitClear(h.flags, BFLAG_FILL) = 0
  /\ ~(Has(h.flags, BFLAG_FILL)
        /\ Gt32(h.byte_count, U32(CUSTOMIZE_SMALLEST_FILL_BLOCK)))
  /\ ~Has(c.flags, BFLAG_FILL)
  /\ Ge32(h.target_address, c.address)
  /\ Le32(h.target_address, Add32(c.address, c.length))

\* the scan of lines 193-218: index of the first matching chunk at or after
\* i, or 0 when the scan reaches the end of the list
RECURSIVE FindChunk(_, _, _)
FindChunk(l, h, i) ==
  IF i > Len(l) THEN 0
  ELSE IF IsMatch(h, l[i]) THEN i
  ELSE FindChunk(l, h, i + 1)

\* lines 226-230: a new entry
NewChunk(h) ==
  [ address |-> h.target_address, argument |-> h.argument, data |-> NULL,
    length |-> Zero32, flags |-> h.flags ]

\* an entry that is put in front of the list when none matched
AdditionalAtHead(l, h) ==
  LET i == FindChunk(l, h, 1)
  IN IF i = 0
     THEN [idx |-> 1, isnew |-> TRUE, list |-> <<NewChunk(h)>> \o l]
     ELSE [idx |-> i, isnew |-> FALSE, list |-> l]

\* lines 222-239: the entry the block goes to, appended when none matched
Additional(l, h) ==
  LET i == FindChunk(l, h, 1)
  IN IF i = 0
     THEN [idx |-> Len(l) + 1, isnew |-> TRUE, list |-> Append(l, NewChunk(h))]
     ELSE [idx |-> i, isnew |-> FALSE, list |-> l]

\* line 243: does the block end beyond the entry?
Extends(h, c) ==
  Gt32(Add32(h.target_address, h.byte_count), Add32(c.address, c.length))

\* an inclusive end: one byte more than the block adds
AdditionalBytesInclusive(h, c) ==
  Add32(Sub32(Add32(h.target_address, h.byte_count), Add32(c.address, c.length)),
        U32(1))

\* line 245
AdditionalBytes(h, c) ==
  Sub32(Add32(h.target_address, h.byte_count), Add32(c.address, c.length))

\* a fill that repeats the first byte of the argument (memset instead of memcpy)
FillWordsFirstByte(h) ==
  LET n == ArgSize * (Val(h.byte_count) \div ArgSize)
  IN [i \in 1..n |-> LE32(h.argument)[1]]

\* lines 254-259: the bytes the memcpy loop stores, whole words only
FillWords(h) ==
  LET n == ArgSize * (Val(h.byte_count) \div ArgSize)
      w == LE32(h.argument)
  IN [i \in 1..n |-> w[((i - 1) % ArgSize) + 1]]

Min(a, b) == IF a < b THEN a ELSE b
Max(a, b) == IF a > b THEN a ELSE b

\* bytes fread(ptr, 1, n, input) delivers at file position p
ReadBytes(p, n) ==
  IF p >= Len(input) THEN << >> ELSE SubSeq(input, p + 1, Min(p + n, Len(input)))

\* the buffer after realloc(data, newlen) and a store of src at offset off;
\* bytes of the new part that are not stored keep what the heap held (g)
StoreAt(data, newlen, off, src, g) ==
  LET oldlen == Len(data)
      base == Max(oldlen, off + Len(src))
  IN [i \in 1..newlen |->
        IF i > off /\ i <= off + Len(src) THEN src[i - off]
        ELSE IF i <= oldlen THEN data[i]
        ELSE g[i - base]]

\* number of bytes of the new part of the buffer that no store reaches
Unstored(data, newlen, off, src) ==
  Max(0, newlen - Max(Len(data), off + Len(src)))

HeapGarbage(n) == [1..n -> Garbage]

(* ------------------------------------------------------------------ *)
(* Steps of main                                                      *)
(* ------------------------------------------------------------------ *)
CanRead == Len(input) - inpos >= HeaderSize
NextHdr == block_header_type(SubSeq(input, inpos + 1, inpos + HeaderSize))

\* lines 154-159 and 280-284: write_image(output, list, &settings); list = NULL
Flush(l, w) ==
  /\ output' = output \o write_image(l, settings)
  /\ images' = Append(images, ImageRecord(l, settings, w))
  /\ outHdrAt' = outHdrAt \cup ImageHeaderOffsets(l, Len(output))
  /\ list' = << >>
  /\ writes' = << >>

FlushIfAny ==
  IF list # << >> THEN Flush(list, writes)
  ELSE UNCHANGED << output, images, outHdrAt, list, writes >>

\* line 134: fread delivers no whole header; the loop ends
EndOfInput ==
  /\ pc = "read"
  /\ ~CanRead
  /\ LET part == ReadBytes(inpos, HeaderSize)
         old == HeaderBytes(hdr)
     IN hdr' = block_header_type([i \in 1..HeaderSize |->
                  IF i <= Len(part) THEN part[i] ELSE old[i]])
  /\ inpos' = Max(inpos, Len(input))
  /\ pc' = "finish"
  /\ last' = Step("eof", inpos, hdr', 0, FALSE, FALSE, FALSE)
  /\ UNCHANGED << input, list, settings, output, images, writes, hdrAt,
                  outHdrAt, pass, images1, flipAt >>

\* lines 137-144
ChecksumFail ==
  /\ pc = "read"
  /\ CanRead
  /\ LET h == NextHdr
     IN /\ calc_header_checksum(h) # 0
        /\ hdr' = h
        /\ last' = Step("checksum", inpos, h, 0, FALSE, FALSE, FALSE)
  /\ inpos' = inpos + HeaderSize
  /\ pc' = "aborted"
  /\ UNCHANGED << input, list, settings, output, images, writes, hdrAt,
                  outHdrAt, pass, images1, flipAt >>

\* lines 154-165: a block with FINAL set
FinalBlock ==
  /\ pc = "read"
  /\ CanRead
  /\ LET h == NextHdr
     IN /\ Has(h.flags, BFLAG_FINAL)
        /\ calc_header_checksum(h) = 0
        /\ hdr' = h
        /\ last' = Step("final", inpos, h, 0, FALSE, FALSE, list # << >>)
  /\ FlushIfAny
  /\ inpos' = inpos + HeaderSize
  /\ pc' = "finish"
  /\ UNCHANGED << input, settings, hdrAt, pass, images1, flipAt >>

\* settings that take the entry point from the argument field
copy_settings_argument(h) ==
  [entry_point |-> h.argument, hdrsign |-> h.hdrsign, bcode |-> h.bcode]

\* lines 170-172: the settings a First block leaves
copy_settings(h) ==
  [entry_point |-> h.target_address, hdrsign |-> h.hdrsign, bcode |-> h.bcode]

\* lines 154-176: a block with FIRST set that the FINAL test let through
FirstBlock ==
  /\ pc = "read"
  /\ CanRead
  /\ LET h == NextHdr
     IN /\ ~Has(h.flags, BFLAG_FINAL)
        /\ Has(h.flags, BFLAG_FIRST)
        /\ calc_header_checksum(h) = 0
        /\ settings' = copy_settings(h)
        /\ hdr' = h
        /\ last' = Step("first", inpos, h, 0, FALSE, FALSE, list # << >>)
  /\ FlushIfAny
  /\ inpos' = inpos + HeaderSize
  /\ UNCHANGED << input, pc, hdrAt, pass, images1, flipAt >>

\* a skip that takes a block with FILL set to have no payload
fseek_cur_unless_fill(pos, h) ==
  IF Has(h.flags, BFLAG_FILL) THEN pos ELSE pos + Val(h.byte_count)

\* line 183: fseek(input, hdr.byte_count, SEEK_CUR) at file position pos
fseek_cur(pos, h) == pos + Val(h.byte_count)

\* lines 181-185
IgnoreBlock ==
  /\ pc = "read"
  /\ CanRead
  /\ LET h == NextHdr
     IN /\ ~Has(h.flags, BFLAG_FINAL + BFLAG_FIRST)
        /\ Has(h.flags, BFLAG_IGNORE)
        /\ calc_header_checksum(h) = 0
        /\ hdr' = h
        /\ inpos' = fseek_cur(inpos + HeaderSize, h)
        /\ last' = Step("ignore", inpos, h, 0, FALSE, FALSE, FALSE)
  /\ UNCHANGED << input, list, settings, output, pc, images, writes, hdrAt,
                  outHdrAt, pass, images1, flipAt >>

\* lines 188-285: a Normal or Fill block
MergeBlock ==
  /\ pc = "read"
  /\ CanRead
  /\ LET h == NextHdr
         p == inpos + HeaderSize
         m == Additional(list, h)
         c == m.list[m.idx]
         grows == Extends(h, c)
         ab == AdditionalBytes(h, c)
         isFill == Has(h.flags, BFLAG_FILL)
         unrolls == grows /\ isFill /\ ~Has(c.flags, BFLAG_FILL)
         reads == grows /\ ~isFill
         newlen == Val(Add32(c.length, ab))
         off == Val(Sub32(h.target_address, c.address))
         src == IF unrolls THEN FillWords(h)
                ELSE IF reads THEN ReadBytes(p, Val(ab))
                ELSE << >>
         n == IF unrolls \/ reads THEN Unstored(c.data, newlen, off, src) ELSE 0
         w == [hdr |-> h, at |-> inpos, chunk |-> m.idx]
     IN /\ ~Has(h.flags, BFLAG_FINAL + BFLAG_FIRST + BFLAG_IGNORE)
        /\ calc_header_checksum(h) = 0
        /\ \E g \in HeapGarbage(n) :
          LET c1 == IF ~grows THEN c
                    ELSE [c EXCEPT
                            !.data = IF unrolls \/ reads
                                     THEN StoreAt(c.data, newlen, off, src, g)
                                     ELSE c.data,
                            !.length = Add32(c.length, ab)]
              list1 == [m.list EXCEPT ![m.idx] = c1]
              init == Has(h.flags, BFLAG_INIT)
          IN /\ hdr' = IF unrolls
                       THEN [h EXCEPT !.byte_count = U32(Val(h.byte_count) % ArgSize)]
                       ELSE h
             /\ inpos' = p + (IF reads THEN Len(src) ELSE 0)
             /\ IF init
                THEN Flush(list1, Append(writes, w))
                ELSE /\ list' = list1
                     /\ writes' = Append(writes, w)
                     /\ UNCHANGED << output, images, outHdrAt >>
             /\ last' = Step("merge", inpos, h, m.idx, m.isnew, grows, init)
  /\ UNCHANGED << input, settings, pc, hdrAt, pass, images1, flipAt >>

\* a trailing header that keeps the address of the last header read
FinalHeaderKeepsAddress(h, st) ==
  [h EXCEPT !.flags = BFLAG_FINAL, !.argument = Zero32, !.byte_count = Zero32]

\* lines 292-295: main's hdr, made the trailing Final header
FinalHeader(h, st) ==
  [h EXCEPT !.flags = BFLAG_FINAL,
            !.target_address = st.entry_point,
            !.argument = Zero32,
            !.byte_count = Zero32]

\* lines 288-304: the Final block that ends the output
Finish ==
  /\ pc = "finish"
  /\ LET h == FinalHeader(hdr, settings)
     IN /\ output' = output \o write_header(h)
        /\ hdr' = block_header_type(write_header(h))
  /\ outHdrAt' = outHdrAt \cup {Len(output)}
  /\ pc' = "done"
  /\ last' = Step("finish", inpos, hdr', 0, FALSE, FALSE, FALSE)
  /\ UNCHANGED << input, inpos, list, settings, images, writes, hdrAt, pass,
                  images1, flipAt >>

\* lines 96-132: the program is started again, on the file it has written
Rerun ==
  /\ pc = "done"
  /\ pass = 1
  /\ \E g \in Garbage :
       /\ hdr' = UninitHdr(g)
       /\ settings' = UninitSettings(g)
  /\ input' = output
  /\ inpos' = 0
  /\ list' = << >>
  /\ output' = << >>
  /\ pc' = "read"
  /\ images' = << >>
  /\ writes' = << >>
  /\ hdrAt' = outHdrAt
  /\ outHdrAt' = {}
  /\ last' = NoStep
  /\ pass' = 2
  /\ images1' = images
  /\ flipAt' = -1

Next ==
  \/ EndOfInput
  \/ ChecksumFail
  \/ FinalBlock
  \/ FirstBlock
  \/ IgnoreBlock
  \/ MergeBlock
  \/ Finish
  \/ Rerun

Spec == Init /\ [][Next]_vars

\* the runs on input files with a damaged header
SpecFlip == InitFlip /\ [][Next]_vars

\* the runs on input files of blocks at the edges of the merge rule
SpecEdge == InitEdge /\ [][Next]_vars

TypeOK ==
  /\ pc \in {"read", "finish", "done", "aborted"}
  /\ pass \in {1, 2}
  /\ inpos >= 0
  /\ \A i \in 1..Len(list) :
       Has(list[i].flags, BFLAG_FILL) \/ Val(list[i].length) = Len(list[i].data)

(* ------------------------------------------------------------------ *)
(* Helpers of the properties                                          *)
(* ------------------------------------------------------------------ *)
IsMergeStep == last.op = "merge"
FillOnly(h) == h.flags = BFLAG_FILL
SmallFill(h) ==
  FillOnly(h) /\ Le32(h.byte_count, U32(CUSTOMIZE_SMALLEST_FILL_BLOCK))
ChunkEnd(c) == Add32(c.address, c.length)
LastImage == images[Len(images)]

\* the chunk the last merged block went to (the list is flushed when the
\* block carries INIT)
LastChunk == IF last.flushed THEN LastImage.chunks[last.idx] ELSE list[last.idx]

\* the data of chunk c holds the words of argument arg from offset off on
HoldsWords(c, off, nwords, arg) ==
  /\ c.data # NULL
  /\ off + ArgSize * nwords <= Len(c.data)
  /\ \A i \in 1..(ArgSize * nwords) :
       c.data[off + i] = LE32(arg)[((i - 1) % ArgSize) + 1]

(* ------------------------------------------------------------------ *)
(* C1                                                                 *)
(* ------------------------------------------------------------------ *)
\* C1 as stated: every Fill-only block of at most 256 bytes (and at least one
\* word) whose address lies in no existing Fill chunk ends up in a chunk that
\* owns a data buffer holding byteCount/4 copies of the argument.
C1_FillAlwaysUnrolled ==
  (/\ IsMergeStep
   /\ SmallFill(last.hdr)
   /\ Val(last.hdr.byte_count) >= ArgSize
   /\ \A k \in 1..Len(list) :
        (k # last.idx /\ Has(list[k].flags, BFLAG_FILL))
          => ~(/\ Ge32(last.hdr.target_address, list[k].address)
               /\ Lt32(last.hdr.target_address, ChunkEnd(list[k]))))
  => HoldsWords(LastChunk,
                Val(Sub32(last.hdr.target_address, LastChunk.address)),
                Val(last.hdr.byte_count) \div ArgSize,
                last.hdr.argument)

\* C1 amended: a Fill-only block of at most 256 bytes is unrolled exactly when
\* it is merged into an existing non-Fill chunk and ends beyond it: then the
\* chunk's data holds byteCount/4 copies of the argument from the offset
\* targetAddress - address on and the chunk stays non-Fill.  A block that
\* matches no chunk (one that is alone in its application, say) becomes a new
\* chunk with the FILL flag and no data buffer.
C1_UnrolledOnlyWhenMerged ==
  (IsMergeStep /\ SmallFill(last.hdr))
  => IF last.isnew
     THEN /\ LastChunk.flags = BFLAG_FILL
          /\ LastChunk.data = NULL
          /\ LastChunk.argument = last.hdr.argument
     ELSE /\ ~Has(LastChunk.flags, BFLAG_FILL)
          /\ last.grew =>
               HoldsWords(LastChunk,
                          Val(Sub32(last.hdr.target_address, LastChunk.address)),
                          Val(last.hdr.byte_count) \div ArgSize,
                          last.hdr.argument)

\* a small Fill block has been unrolled into an existing chunk
C1_Witness ==
  /\ IsMergeStep
  /\ SmallFill(last.hdr)
  /\ ~last.isnew
  /\ last.grew
  /\ Val(last.hdr.byte_count) >= ArgSize
  /\ LE32(last.hdr.argument)[1] # LE32(last.hdr.argument)[2]

(* ------------------------------------------------------------------ *)
(* C2                                                                 *)
(* ------------------------------------------------------------------ *)
\* block w writes address a
Covers(w, a) ==
  /\ Le32(w.hdr.target_address, a)
  /\ Lt32(a, Add32(w.hdr.target_address, w.hdr.byte_count))

\* the index of the last block of ws that went to chunk k and writes address
\* a, or 0
RECURSIVE LastCovering(_, _, _, _)
LastCovering(ws, k, a, j) ==
  IF j = 0 THEN 0
  ELSE IF ws[j].chunk = k /\ Covers(ws[j], a) THEN j
  ELSE LastCovering(ws, k, a, j - 1)

\* does block w supply a byte for address a: a Fill block supplies whole
\* words only, a Normal block the payload bytes the input holds
Supplies(w, a) ==
  LET off == Val(Sub32(a, w.hdr.target_address))
  IN IF Has(w.hdr.flags, BFLAG_FILL)
     THEN off < ArgSize * (Val(w.hdr.byte_count) \div ArgSize)
     ELSE w.at + HeaderSize + off + 1 <= Len(input)

\* the byte block w supplies for address a
Supplied(w, a) ==
  LET off == Val(Sub32(a, w.hdr.target_address))
  IN IF Has(w.hdr.flags, BFLAG_FILL)
     THEN LE32(w.hdr.argument)[(off % ArgSize) + 1]
     ELSE input[w.at + HeaderSize + off + 1]

\* C2 as stated: at every flush, each data byte of each chunk is the byte
\* supplied by the last of the blocks merged into that chunk whose range
\* [targetAddress, targetAddress+byteCount) covers its address.
C2_LastWriteWins ==
  last.flushed =>
    \A k \in 1..Len(LastImage.chunks) :
      LET c == LastImage.chunks[k]
      IN \A i \in 1..Len(c.data) :
           LET a == Add32(c.address, U32(i - 1))
               j == LastCovering(LastImage.writes, k, a, Len(LastImage.writes))
           IN (j # 0 /\ Supplies(LastImage.writes[j], a))
                => c.data[i] = Supplied(LastImage.writes[j], a)

(* ------------------------------------------------------------------ *)
(* C3                                                                 *)
(* ------------------------------------------------------------------ *)
\* the chunk-level result of a run: per image, the chunks in order
ChunkLevel(ims) == [i \in 1..Len(ims) |-> ims[i].chunks]

\* the header write_image gives chunk c, as the next run reads it
AsBlock(c) ==
  [ bcode |-> 0, flags |-> c.flags, hdrchk |-> 0, hdrsign |-> 0,
    target_address |-> c.address, byte_count |-> c.length,
    argument |-> c.argument ]

\* no chunk of an image would, read back as a block, match an earlier chunk
\* of its image
NoChunkMatchesEarlier(ims) ==
  \A n \in 1..Len(ims) :
    \A i \in 1..Len(ims[n].chunks) :
      \A j \in 1..(i - 1) :
        ~IsMatch(AsBlock(ims[n].chunks[i]), ims[n].chunks[j])

SecondRunEnded == pass = 2 /\ pc \in {"done", "aborted"}

\* C3 as stated: the run on the program's own output gives the chunk-level
\* result of the first run.
C3_Idempotent ==
  SecondRunEnded => (pc = "done" /\ ChunkLevel(images) = ChunkLevel(images1))

\* C3 amended: the run on the program's own output gives the chunk-level
\* result of the first run provided no chunk of the first output starts inside
\* or at the end of an earlier non-Fill chunk of its image (with no flag but
\* FILL set and, if Fill, at most 256 bytes long); otherwise the second run
\* merges that chunk into the earlier one.
C3_IdempotentWhenNoRematch ==
  (SecondRunEnded /\ NoChunkMatchesEarlier(images1))
    => (pc = "done" /\ ChunkLevel(images) = ChunkLevel(images1))

\* a second run has ended on an output of two images, one with two chunks
C3_Witness ==
  /\ pass = 2
  /\ pc = "done"
  /\ NoChunkMatchesEarlier(images1)
  /\ Len(images1) >= 2
  /\ \E n \in 1..Len(images1) : Len(images1[n].chunks) >= 2

(* ------------------------------------------------------------------ *)
(* C4                                                                 *)
(* ------------------------------------------------------------------ *)
\* the ranges [address, address+length) of chunks c and d share no address
Disjoint(a1, e1, a2, e2) ==
  Le32(e1, a1) \/ Le32(e2, a2) \/ Le32(e1, a2) \/ Le32(e2, a1)

ChunksDisjoint(l) ==
  \A i, j \in 1..Len(l) :
    i < j => Disjoint(l[i].address, ChunkEnd(l[i]), l[j].address, ChunkEnd(l[j]))

BlockEnd(w) == Add32(w.hdr.target_address, w.hdr.byte_count)

\* the blocks merged since the last flush are pairwise disjoint; the end of a
\* range is taken modulo 2^32 as line 243 takes it, so that a range whose end
\* is not above its start is empty
BlocksDisjoint(ws) ==
  \A i, j \in 1..Len(ws) :
    i < j => Disjoint(ws[i].hdr.target_address, BlockEnd(ws[i]),
                      ws[j].hdr.target_address, BlockEnd(ws[j]))

\* C4 as stated: no two chunks of the list cover a common address.
C4_ChunksNeverOverlap == ChunksDisjoint(list)

\* C4 amended: no two chunks of the list cover a common address provided the
\* blocks merged since the last flush cover pairwise disjoint ranges; a block
\* that starts below a chunk and reaches into it, or that extends a chunk
\* into a later one, makes chunks overlap.
C4_DisjointBlocksDisjointChunks ==
  BlocksDisjoint(writes) => ChunksDisjoint(list)

\* three disjoint blocks have made two chunks, one of them from two blocks
C4_Witness ==
  /\ Len(writes) >= 3
  /\ Len(list) = 2
  /\ BlocksDisjoint(writes)
  /\ \A i \in 1..Len(list) : Val(list[i].length) > 0

(* ------------------------------------------------------------------ *)
(* C5                                                                 *)
(* ------------------------------------------------------------------ *)
\* the last block was merged into an existing chunk that covers all of it
CoveredStep ==
  /\ IsMergeStep
  /\ ~last.isnew
  /\ ~last.grew
  /\ Val(last.hdr.byte_count) > 0

\* the number of payload bytes that follow the header of a block
PayloadSize(h) == IF Has(h.flags, BFLAG_FILL) THEN 0 ELSE Val(h.byte_count)

\* C5 as stated: after a covered block the run goes on (no abort) with the
\* input positioned behind the block's payload, at the next block's header.
C5_CoveredBlockSkipped ==
  CoveredStep =>
    /\ pc = "read"
    /\ inpos = last.at + HeaderSize + PayloadSize(last.hdr)

(* ------------------------------------------------------------------ *)
(* C6                                                                 *)
(* ------------------------------------------------------------------ *)
\* the next header is a block without flags whose payload is all there
PlainBlockNext ==
  /\ pc = "read"
  /\ CanRead
  /\ calc_header_checksum(NextHdr) = 0
  /\ NextHdr.flags = 0
  /\ inpos + HeaderSize + Val(NextHdr.byte_count) <= Len(input)

\* chunk k is a non-Fill chunk that ends where the next block starts
EndsAtNext(k) ==
  /\ ~Has(list[k].flags, BFLAG_FILL)
  /\ ChunkEnd(list[k]) = NextHdr.target_address

\* C6 as stated: a block without flags that starts at the end of an existing
\* non-Fill chunk creates no chunk; that chunk grows by byteCount and its data
\* becomes the old data followed by the block's payload.
C6_ContiguousBlockAppended ==
  [][ (PlainBlockNext /\ \E k \in 1..Len(list) : EndsAtNext(k))
        => /\ Len(list') = Len(list)
           /\ \A k \in 1..Len(list) :
                EndsAtNext(k) =>
                  /\ list'[k].length = Add32(list[k].length, NextHdr.byte_count)
                  /\ list'[k].data =
                       list[k].data \o ReadBytes(inpos + HeaderSize,
                                                 Val(NextHdr.byte_count)) ]_vars

(* ------------------------------------------------------------------ *)
(* C7                                                                 *)
(* ------------------------------------------------------------------ *)
\* the last n bytes of the output
OutputTail(n) == SubSeq(output, Len(output) - n + 1, Len(output))

\* the output ends with the image im, leading header first
EndsWithImage(im) ==
  LET b == write_image(im.chunks, im.settings)
  IN Len(b) <= Len(output) /\ OutputTail(Len(b)) = b

\* C7: when a Normal/Fill block carrying INIT has been merged, the list has
\* been written out and is empty; the image written last ends the output, and
\* the block's chunk is a new chunk and the last chunk of that image; in no
\* image is a chunk carrying INIT followed by another chunk.
C7_InitFlushes ==
  /\ (IsMergeStep /\ Has(last.hdr.flags, BFLAG_INIT))
       => /\ last.flushed
          /\ list = << >>
          /\ images # << >>
          /\ EndsWithImage(LastImage)
          /\ last.isnew
          /\ last.idx = Len(LastImage.chunks)
          /\ LastChunk.address = last.hdr.target_address
          /\ LastChunk.flags = last.hdr.flags
  /\ \A n \in 1..Len(images) :
       \A i \in 1..Len(images[n].chunks) :
         Has(images[n].chunks[i].flags, BFLAG_INIT) => i = Len(images[n].chunks)

\* an Init block has flushed a list that held an earlier chunk, which the
\* block's range touches
C7_Witness ==
  /\ IsMergeStep
  /\ Has(last.hdr.flags, BFLAG_INIT)
  /\ last.flushed
  /\ Len(LastImage.chunks) >= 2
  /\ \E i \in 1..(Len(LastImage.chunks) - 1) :
       ChunkEnd(LastImage.chunks[i]) = last.hdr.target_address

(* ------------------------------------------------------------------ *)
(* C8                                                                 *)
(* ------------------------------------------------------------------ *)
RECURSIVE ImagesBytes(_)
ImagesBytes(ims) ==
  IF ims = << >> THEN << >>
  ELSE write_image(ims[1].chunks, ims[1].settings) \o ImagesBytes(Tail(ims))

\* the last step read a whole header
HeaderWasRead == last.op \in {"checksum", "final", "first", "ignore", "merge"}

\* C8: a header with one bit inverted fails the checksum: reading it ends the
\* run with a nonzero status; an aborted run takes no further step and its
\* output holds the images written before and nothing else (no image of the
\* pending chunks, no trailing Final header).
C8_FlippedHeaderAborts ==
  /\ (flipAt >= 0 /\ HeaderWasRead /\ last.at = flipAt)
        => (last.op = "checksum" /\ pc = "aborted")
  /\ pc = "aborted" => (output = ImagesBytes(images) /\ ~ENABLED Next)

\* a damaged header was read while a chunk was pending
C8_Witness ==
  /\ flipAt >= 0
  /\ last.at = flipAt
  /\ pc = "aborted"
  /\ list # << >>

(* ------------------------------------------------------------------ *)
(* C9                                                                 *)
(* ------------------------------------------------------------------ *)
\* C9 as stated: a Fill-only block of more than 256 bytes becomes a new chunk
\* without data buffer that keeps the block's argument and byteCount.
C9_LargeFillKeptVerbatim ==
  (/\ IsMergeStep
   /\ FillOnly(last.hdr)
   /\ Gt32(last.hdr.byte_count, U32(CUSTOMIZE_SMALLEST_FILL_BLOCK)))
  => /\ last.isnew
     /\ LastChunk = [ address |-> last.hdr.target_address,
                      argument |-> last.hdr.argument,
                      data |-> NULL,
                      length |-> last.hdr.byte_count,
                      flags |-> BFLAG_FILL ]

(* ------------------------------------------------------------------ *)
(* C10                                                                *)
(* ------------------------------------------------------------------ *)
\* what a First block leaves: the settings taken from its header, an empty
\* list, the input positioned right behind the header, the loop going on
HandledAsFirst ==
  /\ settings = [ entry_point |-> last.hdr.target_address,
                  hdrsign |-> last.hdr.hdrsign,
                  bcode |-> last.hdr.bcode ]
  /\ list = << >>
  /\ writes = << >>
  /\ inpos = last.at + HeaderSize
  /\ pc = "read"
  /\ last.flushed => (images # << >> /\ EndsWithImage(LastImage))

\* C10 as stated: every block with FIRST set is handled as a First block.
C10_FirstWhateverFlags ==
  (HeaderWasRead /\ last.op # "checksum" /\ Has(last.hdr.flags, BFLAG_FIRST))
    => HandledAsFirst

\* C10 amended: every block with FIRST set and FINAL clear, whatever its other
\* flags, is handled as a First block; a block with FIRST and FINAL set is
\* handled as a Final block: it captures nothing and ends the loop.
C10_FirstUnlessFinal ==
  (HeaderWasRead /\ last.op # "checksum" /\ Has(last.hdr.flags, BFLAG_FIRST))
    => IF Has(last.hdr.flags, BFLAG_FINAL)
       THEN last.op = "final" /\ pc = "finish"
       ELSE last.op = "first" /\ HandledAsFirst

\* a First block that also carries FILL and INIT has flushed a list
C10_Witness ==
  /\ last.op = "first"
  /\ Has(last.hdr.flags, BFLAG_FILL + BFLAG_INIT)
  /\ last.flushed
  /\ settings.entry_point = last.hdr.target_address
  /\ settings.entry_point # last.hdr.argument

(* ------------------------------------------------------------------ *)
(* C11                                                                *)
(* ------------------------------------------------------------------ *)
\* the next header passes the checksum and has FINAL set
FinalNext ==
  /\ pc = "read"
  /\ CanRead
  /\ calc_header_checksum(NextHdr) = 0
  /\ Has(NextHdr.flags, BFLAG_FINAL)

\* the header held by the last 16 bytes of a byte sequence
TailHeader(bytes) ==
  block_header_type(SubSeq(bytes, Len(bytes) - HeaderSize + 1, Len(bytes)))

\* C11: a block with FINAL set makes the run write the image of a non-empty
\* list, empty the list and leave the loop; once the loop is left no further
\* input is read, and the one step that follows appends exactly 16 bytes to
\* the output: a header with flags = FINAL, targetAddress = the entry point
\* of the settings, byteCount = 0 and argument = 0; the settings change only
\* when a First block is handled, and then to that block's targetAddress.
C11_FinalTerminates ==
  [][ /\ FinalNext =>
           /\ pc' = "finish"
           /\ list' = << >>
           /\ inpos' = inpos + HeaderSize
           /\ output' = IF list # << >>
                        THEN output \o write_image(list, settings)
                        ELSE output
      /\ (pc = "finish") =>
           /\ pc' = "done"
           /\ inpos' = inpos
           /\ list' = list
           /\ Len(output') = Len(output) + HeaderSize
           /\ SubSeq(output', 1, Len(output)) = output
           /\ TailHeader(output').flags = BFLAG_FINAL
           /\ TailHeader(output').target_address = settings.entry_point
           /\ TailHeader(output').byte_count = Zero32
           /\ TailHeader(output').argument = Zero32
      /\ (pc = "done" /\ pass' = pass) => (output' = output /\ inpos' = inpos)
      /\ (settings' # settings /\ pass' = pass) =>
           /\ last'.op = "first"
           /\ settings'.entry_point = last'.hdr.target_address ]_vars

\* a run that a Final block has ended, after a flush, with its trailing
\* header written; the entry point came from a First block other than the
\* one the Final block names
C11_Witness ==
  /\ pc = "done"
  /\ pass = 1
  /\ last.op = "finish"
  /\ images # << >>
  /\ inpos >= HeaderSize
  /\ inpos <= Len(input)
  /\ LET f == block_header_type(SubSeq(input, inpos - HeaderSize + 1, inpos))
     IN /\ Has(f.flags, BFLAG_FINAL)
        /\ f.target_address # settings.entry_point
  /\ Len(output) = Len(ImagesBytes(images)) + HeaderSize

(* ------------------------------------------------------------------ *)
(* C12                                                                *)
(* ------------------------------------------------------------------ *)
\* 16 for every chunk, plus its length when it owns a data buffer
RECURSIVE ChunksSize(_)
ChunksSize(l) ==
  IF l = << >> THEN 0
  ELSE HeaderSize + (IF l[1].data # NULL THEN Val(l[1].length) ELSE 0)
         + ChunksSize(Tail(l))

\* the bytes the last flush appended to the output
LastImageBytes == write_image(LastImage.chunks, LastImage.settings)

\* C12: after every flush the output ends with the bytes of the image, whose
\* first 16 bytes are a header with flags = IGNORE|FIRST and byteCount = 0
\* and argument = 16 + the sum over the chunks of (16 + length if the chunk
\* owns a data buffer, else 16), which is the number of bytes of the image.
C12_ImageSize ==
  last.flushed =>
    LET b == LastImageBytes
        h == block_header_type(SubSeq(b, 1, HeaderSize))
    IN /\ EndsWithImage(LastImage)
       /\ h.flags = BFLAG_IGNORE + BFLAG_FIRST
       /\ h.byte_count = Zero32
       /\ h.argument = U32(HeaderSize + ChunksSize(LastImage.chunks))
       /\ Val(h.argument) = Len(b)

\* an image has been written that holds a chunk with a data buffer and a
\* Fill chunk without one
C12_Witness ==
  /\ last.flushed
  /\ \E i, j \in 1..Len(LastImage.chunks) :
       /\ LastImage.chunks[i].data # NULL
       /\ LastImage.chunks[j].data = NULL
       /\ Val(LastImage.chunks[j].length) > 0

(* ------------------------------------------------------------------ *)
(* C13                                                                *)
(* ------------------------------------------------------------------ *)
\* the 16 bytes of a file at offset at
RawHeader(bytes, at) == SubSeq(bytes, at + 1, at + HeaderSize)

\* the last step read a header that passed the checksum
HeaderAccepted == HeaderWasRead /\ last.op # "checksum"

\* C13: every header that was read and passed the checksum is reproduced
\* byte for byte by write_header (checksum byte cleared, XOR recomputed and
\* stored); the 16 bytes of every header the program has written XOR to
\* zero; and the run on the program's own output never rejects one of the
\* headers the first run wrote.
C13_ChecksumRoundTrip ==
  /\ HeaderAccepted => write_header(last.hdr) = RawHeader(input, last.at)
  /\ \A at \in outHdrAt :
       /\ at + HeaderSize <= Len(output)
       /\ XorBytes(RawHeader(output, at)) = 0
  /\ (pass = 2 /\ last.op = "checksum") => last.at \notin hdrAt

\* the second run has accepted a chunk header the first run wrote, one with
\* a nonzero checksum byte
C13_Witness ==
  /\ pass = 2
  /\ HeaderAccepted
  /\ last.op = "merge"
  /\ last.at \in hdrAt
  /\ last.hdr.hdrchk # 0

(* ------------------------------------------------------------------ *)
(* C14                                                                *)
(* ------------------------------------------------------------------ *)
\* the next header passes the checksum and has IGNORE set, FIRST and FINAL
\* clear
IgnoreNext ==
  /\ pc = "read"
  /\ CanRead
  /\ calc_header_checksum(NextHdr) = 0
  /\ Has(NextHdr.flags, BFLAG_IGNORE)
  /\ ~Has(NextHdr.flags, BFLAG_FIRST + BFLAG_FINAL)

\* C14: a block with IGNORE set and FIRST and FINAL clear, whatever its FILL
\* and INIT bits, moves the input byteCount bytes past its header and leaves
\* the list, the output, the settings and the images written as they were;
\* the loop goes on.
C14_IgnoreFrame ==
  [][ IgnoreNext =>
        /\ inpos' = inpos + HeaderSize + Val(NextHdr.byte_count)
        /\ list' = list
        /\ output' = output
        /\ settings' = settings
        /\ images' = images
        /\ pc' = "read" ]_vars

\* an Ignore block that carries FILL and INIT has been skipped while a chunk
\* was pending
C14_Witness ==
  /\ last.op = "ignore"
  /\ Has(last.hdr.flags, BFLAG_FILL)
  /\ Has(last.hdr.flags, BFLAG_INIT)
  /\ Val(last.hdr.byte_count) > 0
  /\ list # << >>
  /\ inpos = last.at + HeaderSize + Val(last.hdr.byte_count)

(* ------------------------------------------------------------------ *)
(* C15                                                                *)
(* ------------------------------------------------------------------ *)
\* the sum of two 32-bit values as a number of 33 bits (hi has 17)
Wide(a, b) ==
  [ hi |-> a.hi + b.hi + ((a.lo + b.lo) \div 65536),
    lo |-> (a.lo + b.lo) % 65536 ]
WideLt(x, y) == x.hi < y.hi \/ (x.hi = y.hi /\ x.lo < y.lo)
WideLe(x, y) == x = y \/ WideLt(x, y)

\* address a lies in [c.address, c.address + c.length] of a non-Fill chunk
HoldsAddress(c, a) ==
  /\ ~Has(c.flags, BFLAG_FILL)
  /\ Le32(c.address, a)
  /\ WideLe(Wide(a, Zero32), Wide(c.address, c.length))

\* index of the first chunk of l, at or after i, that holds address a, or 0
RECURSIVE FirstHolding(_, _, _)
FirstHolding(l, a, i) ==
  IF i > Len(l) THEN 0
  ELSE IF HoldsAddress(l[i], a) THEN i
  ELSE FirstHolding(l, a, i + 1)

\* the next header passes the checksum and is a Fill-only block of at most
\* 256 bytes
SmallFillNext ==
  /\ pc = "read"
  /\ CanRead
  /\ calc_header_checksum(NextHdr) = 0
  /\ SmallFill(NextHdr)

\* chunk d is chunk c grown by the Fill block h: length, flags, the words of
\* the argument, the size of the buffer, the old bytes not written over
GrownByFill(c, d, h) ==
  LET off == Val(Sub32(h.target_address, c.address))
      nwords == Val(h.byte_count) \div ArgSize
      overhang == Sub32(Add32(h.target_address, h.byte_count),
                        Add32(c.address, c.length))
  IN /\ d.address = c.address
     /\ d.length = Add32(c.length, overhang)
     /\ d.flags = c.flags
     /\ Len(d.data) = Val(d.length)
     /\ off + ArgSize * nwords <= Len(d.data)
     /\ HoldsWords(d, off, nwords, h.argument)
     /\ \A i \in 1..Len(c.data) :
          (i <= off \/ i > off + ArgSize * nwords) => d.data[i] = c.data[i]

\* C15 as stated: a Fill-only block of at most 256 bytes whose targetAddress
\* lies in [address, address+length] of a non-Fill chunk, and whose end
\* targetAddress+byteCount lies beyond the end of the first such chunk in
\* list order, grows that chunk by the overhang and stores byteCount/4
\* copies of the argument from offset targetAddress - address on, inside the
\* grown buffer; the chunk stays non-Fill.
C15_SmallFillGrowsChunk ==
  [][ LET h == NextHdr
          k == FirstHolding(list, h.target_address, 1)
      IN (/\ SmallFillNext
          /\ k # 0
          /\ WideLt(Wide(list[k].address, list[k].length),
                    Wide(h.target_address, h.byte_count)))
         => /\ Len(list') = Len(list)
            /\ GrownByFill(list[k], list'[k], h) ]_vars

(* ------------------------------------------------------------------ *)
(* C16                                                                *)
(* ------------------------------------------------------------------ *)
\* the first of the blocks ws, at or after j, that went to chunk i, or 0
RECURSIVE FirstWrite(_, _, _)
FirstWrite(ws, i, j) ==
  IF j > Len(ws) THEN 0
  ELSE IF ws[j].chunk = i THEN j
  ELSE FirstWrite(ws, i, j + 1)

\* every chunk of l starts at the address of the first block that went to
\* it, and the chunks stand in the order in which those blocks were read
DiscoveryOrder(l, ws) ==
  \A i \in 1..Len(l) :
    LET f == FirstWrite(ws, i, 1)
    IN /\ f # 0
       /\ l[i].address = ws[f].hdr.target_address
       /\ \A k \in 1..(i - 1) : FirstWrite(ws, k, 1) < f

\* the target addresses of the chunk headers in the bytes of an image, from
\* offset at on, in the order in which they were written
RECURSIVE WrittenAddresses(_, _)
WrittenAddresses(bytes, at) ==
  IF at + HeaderSize > Len(bytes) THEN << >>
  ELSE LET h == block_header_type(RawHeader(bytes, at))
       IN <<h.target_address>>
            \o WrittenAddresses(bytes,
                 at + HeaderSize
                    + (IF Has(h.flags, BFLAG_FILL) THEN 0 ELSE Val(h.byte_count)))

\* C16: the chunks of the list stand in the order in which their first
\* contributing blocks were read, whatever their addresses; so do the chunks
\* of every image at its flush, and the flush writes their headers in that
\* order.
C16_DiscoveryOrder ==
  /\ DiscoveryOrder(list, writes)
  /\ last.flushed =>
       /\ DiscoveryOrder(LastImage.chunks, LastImage.writes)
       /\ EndsWithImage(LastImage)
       /\ WrittenAddresses(LastImageBytes, HeaderSize)
            = [i \in 1..Len(LastImage.chunks) |-> LastImage.chunks[i].address]

\* an image has been written whose first chunk lies above its second and
\* took a further block after the second chunk was created
C16_Witness ==
  /\ last.flushed
  /\ Len(LastImage.chunks) >= 2
  /\ Lt32(LastImage.chunks[2].address, LastImage.chunks[1].address)
  /\ \E j \in 1..Len(LastImage.writes) :
       /\ LastImage.writes[j].chunk = 1
       /\ j > FirstWrite(LastImage.writes, 2, 1)

(* ------------------------------------------------------------------ *)
(* C17                                                                *)
(* ------------------------------------------------------------------ *)
\* C17 as stated: when a run has ended with status 0, no chunk is left in
\* the list (every chunk created is in one of the images written), and the
\* output is the images written, each once, followed by the 16 bytes of the
\* trailing header.
C17_NoChunkLost ==
  pc = "done" =>
    /\ list = << >>
    /\ writes = << >>
    /\ Len(output) >= HeaderSize
    /\ SubSeq(output, 1, Len(output) - HeaderSize) = ImagesBytes(images)

(* ------------------------------------------------------------------ *)
(* C18                                                                *)
(* ------------------------------------------------------------------ *)
\* the next header is a block without flags that starts inside chunk k, the
\* chunk the scan stops at, and ends beyond it (0 < overhang < byteCount);
\* its payload is all there
PartialOverlapNext(k) ==
  /\ PlainBlockNext
  /\ k # 0
  /\ Lt32(NextHdr.target_address, ChunkEnd(list[k]))
  /\ Gt32(Add32(NextHdr.target_address, NextHdr.byte_count), ChunkEnd(list[k]))
  /\ Wide(NextHdr.target_address, NextHdr.byte_count).hi < 65536

\* C18 as stated: a block without flags that is merged into a chunk it
\* partly overlaps has all byteCount payload bytes consumed, the input then
\* standing at the next block's header, and every byte the chunk gains is
\* the payload byte of the block for that address.
C18_PartialOverlapAligned ==
  [][ LET h == NextHdr
          k == FindChunk(list, h, 1)
          off == Val(Sub32(h.target_address, list[k].address))
          payload == ReadBytes(inpos + HeaderSize, Val(h.byte_count))
      IN PartialOverlapNext(k)
         => /\ inpos' = inpos + HeaderSize + Val(h.byte_count)
            /\ Len(list'[k].data) = off + Val(h.byte_count)
            /\ \A i \in (Len(list[k].data) + 1)..Len(list'[k].data) :
                 list'[k].data[i] = payload[i - off] ]_vars

(* ------------------------------------------------------------------ *)
(* C19                                                                *)
(* ------------------------------------------------------------------ *)
\* every block of ws that went to a chunk of l created before it went to a
\* chunk whose flags are 0
MergedOnlyIntoPlain(l, ws) ==
  \A j \in 1..Len(ws) :
    LET i == ws[j].chunk
    IN (i <= Len(l) /\ FirstWrite(ws, i, 1) < j) => l[i].flags = 0

\* C19 as stated: a block is merged only into a chunk whose flags are 0: a
\* chunk that carries a flag bit, in the list or in an image written, holds
\* no block but the one that created it.
C19_MergedOnlyIntoPlain ==
  /\ MergedOnlyIntoPlain(list, writes)
  /\ last.flushed => MergedOnlyIntoPlain(LastImage.chunks, LastImage.writes)

(* ------------------------------------------------------------------ *)
(* C20                                                                *)
(* ------------------------------------------------------------------ *)
\* the last block was a non-Fill block of at least one byte that started a
\* new chunk, and the input held all of its payload
NewLiteralChunkStep ==
  /\ IsMergeStep
  /\ last.isnew
  /\ ~Has(last.hdr.flags, BFLAG_FILL)
  /\ Val(last.hdr.byte_count) > 0
  /\ last.at + HeaderSize + Val(last.hdr.byte_count) <= Len(input)

\* C20 as stated: a non-Fill block that starts a new chunk leaves it with
\* length = byteCount and with its whole payload in the data buffer, the
\* input standing behind the payload, wherever the block lies in the 32-bit
\* address space; and address + length of a chunk never exceeds 2^32 - 1, so
\* that the match test never matches because that sum has wrapped.
C20_NewChunkWholePayload ==
  /\ NewLiteralChunkStep =>
       /\ LastChunk.length = last.hdr.byte_count
       /\ LastChunk.data =
            ReadBytes(last.at + HeaderSize, Val(last.hdr.byte_count))
       /\ inpos = last.at + HeaderSize + Val(last.hdr.byte_count)
  /\ \A i \in 1..Len(list) : Wide(list[i].address, list[i].length).hi < 65536

====
